---- MODULE Spec2Model ----
(***************************************************************************)
(* F&O News Dashboard (src/app.py): the news retrieval of get_news, with   *)
(* its two fetchers, and the tab loop that renders its results.            *)
(*                                                                         *)
(* Python values are tagged records, so that None, "" and a missing key    *)
(* stay three different things.  A dict is a function whose DOMAIN is the  *)
(* set of keys present; a str is the sequence of its characters (digits).  *)
(* A datetime is its ordinal (one unit of time), a struct_time the tuple   *)
(* feedparser hands out, of which the datetime constructor keeps the head. *)
(***************************************************************************)
EXTENDS Integers, Sequences, FiniteSets, TLC

VARIABLES NEWSAPI_KEY, full_query, tab, pc, news, screen, trace

vars == <<NEWSAPI_KEY, full_query, tab, pc, news, screen, trace>>

-----------------------------------------------------------------------------
(* Bounds of the model *)

\* longest list of records drawn exhaustively from the core record sets
MaxLen == 2
\* generated long lists have ResultCap .. ResultCap + MaxExtra records
MaxExtra == 2
\* the instant datetime.utcnow() returns (an ordinal below 1000)
UtcNow == 400

\* [:50] of get_news
ResultCap == 50

-----------------------------------------------------------------------------
(* Python values *)

None == [type |-> "NoneType"]
Str(s) == [type |-> "str", s |-> s]
Dict(d) == [type |-> "dict", d |-> d]
List(l) == [type |-> "list", l |-> l]
Datetime(n) == [type |-> "datetime", ord |-> n]
StructTime(n) == [type |-> "struct_time", tm |-> <<n, n % 7, 0>>]

EmptyDict == Dict(<<>>)
EmptyStr == Str(<<>>)

\* the outcome of a call: a returned value or a raised exception
Return(v) == [exc |-> "none", val |-> v]
Raise(e) == [exc |-> e, val |-> <<>>]

\* the list with the members f[1], ..., f[n], each evaluated once
ListOf(f) == f \o <<>>

\* d.get(k, default) on the key -> value function d
Get(d, k, default) == IF k \in DOMAIN d THEN d[k] ELSE default

Truthy_NotNone(v) == v.type # "NoneType"

\* bool(v): None, "" and {} are false
Truthy(v) ==
    CASE v.type = "NoneType" -> FALSE
      [] v.type = "str" -> Len(v.s) > 0
      [] v.type = "dict" -> DOMAIN v.d # {}
      [] v.type = "list" -> Len(v.l) > 0
      [] OTHER -> TRUE

\* a < b on two str: lexicographic on the characters
StrLT(a, b) ==
    \E i \in 1..Len(b) :
        /\ \A j \in 1..(i - 1) : j <= Len(a) /\ a[j] = b[j]
        /\ (i > Len(a) \/ a[i] < b[i])

\* a < b as the sort evaluates it on two keys: defined between two str only
PyLT(a, b) ==
    IF a.type = "str" /\ b.type = "str"
    THEN Return(StrLT(a.s, b.s))
    ELSE Raise("TypeError")

\* datetime built from the first fields of a struct_time
DatetimeOf(t) == Datetime(t.tm[1])

\* datetime.isoformat(): fixed width, zero padded
isoformat(dt) == <<dt.ord \div 100, (dt.ord \div 10) % 10, dt.ord % 10>>

-----------------------------------------------------------------------------
(* fetch_news_newsapi *)

\* the dict appended for one record of data["articles"]
NewsapiArticle(a) ==
    LET src == Get(a, "source", EmptyDict)
    IN  IF src.type # "dict"
        THEN Raise("AttributeError")
        ELSE Return([title |-> Get(a, "title", None),
                     source |-> Get(src.d, "name", None),
                     url |-> Get(a, "url", None),
                     publishedAt |-> Get(a, "publishedAt", None),
                     description |-> Get(a, "description", None)])

\* the loop over data["articles"]: the first record that raises ends it
NewsapiLoop(items) ==
    LET made == ListOf([i \in 1..Len(items) |-> NewsapiArticle(items[i])])
        failed == {i \in 1..Len(items) : made[i].exc # "none"}
    IN  IF failed # {}
        THEN made[CHOOSE i \in failed : \A j \in failed : i <= j]
        ELSE Return(ListOf([i \in 1..Len(items) |-> made[i].val]))

\* resp is what requests.get and r.json() give for the request
fetch_news_newsapi(query, from_date, resp) ==
    IF resp.exc # "none"
    THEN Raise(resp.exc)
    ELSE NewsapiLoop(Get(resp.data.d, "articles", List(<<>>)).l)

-----------------------------------------------------------------------------
(* fetch_news_rss *)

\* pub of one entry: set when published_parsed is there and not None
EntryPub(e) ==
    IF "published_parsed" \in DOMAIN e /\ Truthy(e["published_parsed"])
    THEN DatetimeOf(e["published_parsed"])
    ELSE None

SkipEntry_Inclusive(pub, from_date) == Truthy(pub) /\ pub.ord <= from_date.ord

\* if pub and pub < from_date: continue
SkipEntry(pub, from_date) == Truthy(pub) /\ pub.ord < from_date.ord

\* the dict appended for one surviving entry
RssArticle(e, pub) ==
    [title |-> Get(e, "title", None),
     url |-> Get(e, "link", None),
     source |-> IF Get(e, "source", None).type = "dict"
                THEN Get(Get(e, "source", EmptyDict).d, "title", None)
                ELSE Get(e, "source", None),
     publishedAt |-> IF Truthy(pub) THEN Str(isoformat(pub)) ELSE None,
     description |-> Get(e, "summary", None)]

\* the loop over d.entries: skipped entries append nothing
RssLoop(entries, from_date) ==
    LET Stays(e) == ~SkipEntry(EntryPub(e), from_date)
        staying == SelectSeq(entries, Stays)
    IN  ListOf([i \in 1..Len(staying) |-> RssArticle(staying[i], EntryPub(staying[i]))])

\* feed is what feedparser.parse gives for the feed url
fetch_news_rss(query, from_date, feed) ==
    IF feed.exc # "none"
    THEN Raise(feed.exc)
    ELSE Return(RssLoop(feed.entries, from_date))

-----------------------------------------------------------------------------
(* get_news *)

\* key=lambda x: x.get("publishedAt", "")
KeyOf(x) == Get(x, "publishedAt", EmptyStr)

SortsAfter_Ascending(a, b) == PyLT(KeyOf(b), KeyOf(a))

\* reverse=True: a comes after b when a's key is less than b's
SortsAfter(a, b) == PyLT(KeyOf(a), KeyOf(b))

\* sorted(news, key=..., reverse=True): stable, so articles whose keys do not
\* differ keep their order.  With two articles or more every article is compared
\* with a neighbour, and a comparison that is not defined raises.
sorted(items) ==
    LET n == Len(items)
        at == ListOf([i \in 1..n |->
                        1 + Cardinality({j \in 1..n \ {i} :
                                IF j < i
                                THEN ~SortsAfter(items[j], items[i]).val
                                ELSE SortsAfter(items[i], items[j]).val})])
    IN  IF \E i \in 1..(n - 1) : SortsAfter(items[i + 1], items[i]).exc # "none"
        THEN Raise("TypeError")
        ELSE Return(ListOf([p \in 1..n |-> items[CHOOSE i \in 1..n : at[i] = p]]))

Truncate_None(s) == s

\* [:50]
Truncate(s) == SubSeq(s, 1, IF Len(s) < ResultCap THEN Len(s) ELSE ResultCap)

NotCalled == [exc |-> "notcalled", val |-> <<>>]
Call(fn, query, from_date) == [fn |-> fn, query |-> query, from_date |-> from_date]

get_news_retry(days, query, now, resp, feed) ==
    LET from_date == Datetime(now - days)
        keyed == Truthy(NEWSAPI_KEY)
        primary == IF keyed
                   THEN fetch_news_newsapi(query, from_date, resp)
                   ELSE Raise("RuntimeError")
        fallback == IF primary.exc # "none"
                    THEN fetch_news_rss(query, from_date, feed)
                    ELSE NotCalled
        fetched == IF primary.exc = "none" THEN primary ELSE fallback
        ordered == IF fetched.exc = "none" THEN sorted(fetched.val) ELSE fetched
        rss == <<Call("fetch_news_rss", query, from_date)>>
    IN  [from_date |-> from_date,
         calls |-> (IF keyed
                    THEN <<Call("fetch_news_newsapi", query, from_date)>>
                    ELSE <<>>)
                   \o (IF primary.exc # "none" THEN rss ELSE <<>>)
                   \o (IF fallback.exc \notin {"none", "notcalled"} THEN rss ELSE <<>>),
         primary |-> primary,
         fallback |-> fallback,
         fetched |-> fetched,
         exc |-> ordered.exc,
         val |-> IF ordered.exc = "none" THEN Truncate(ordered.val) ELSE <<>>]

\* One call of get_news: the fetchers it calls, in order, what each gave, and
\* what the call returns (val) or raises (exc).
get_news(days, query, now, resp, feed) ==
    LET from_date == Datetime(now - days)
        keyed == Truthy(NEWSAPI_KEY)
        primary == IF keyed
                   THEN fetch_news_newsapi(query, from_date, resp)
                   ELSE Raise("RuntimeError")
        fallback == IF primary.exc # "none"
                    THEN fetch_news_rss(query, from_date, feed)
                    ELSE NotCalled
        fetched == IF primary.exc = "none" THEN primary ELSE fallback
        ordered == IF fetched.exc = "none" THEN sorted(fetched.val) ELSE fetched
    IN  [from_date |-> from_date,
         calls |-> (IF keyed
                    THEN <<Call("fetch_news_newsapi", query, from_date)>>
                    ELSE <<>>)
                   \o (IF primary.exc # "none"
                       THEN <<Call("fetch_news_rss", query, from_date)>>
                       ELSE <<>>),
         primary |-> primary,
         fallback |-> fallback,
         fetched |-> fetched,
         exc |-> ordered.exc,
         val |-> IF ordered.exc = "none" THEN Truncate(ordered.val) ELSE <<>>]

-----------------------------------------------------------------------------
(* What the two providers can answer *)

Restrict(f, K) == [k \in K |-> f[k]]

RECURSIVE ListsUpTo(_, _)
\* every list of at most n members of S
ListsUpTo(S, n) ==
    IF n = 0
    THEN {<<>>}
    ELSE LET shorter == ListsUpTo(S, n - 1)
         IN  shorter \cup {Append(l, x) : l \in {m \in shorter : Len(m) = n - 1}, x \in S}

LongLengths == ResultCap..(ResultCap + MaxExtra)

\* publishedAt strings of the news API; one is a proper prefix of another
ApiStamps == {Str(<<3, 9, 0>>), Str(<<3, 9, 5>>), Str(<<3, 9, 5, 1>>)}

FullRecord ==
    [title |-> Str(<<1>>), source |-> Dict([name |-> Str(<<2>>)]), url |-> Str(<<3>>),
     publishedAt |-> Str(<<3, 9, 5>>), description |-> Str(<<4>>)]

\* records that differ in publishedAt: missing, null or a string
CoreRecords ==
    {Restrict(FullRecord, DOMAIN FullRecord \ {"publishedAt"})}
        \cup {[FullRecord EXCEPT !.publishedAt = p] : p \in ApiStamps \cup {None}}

\* records with any subset of the fields missing, and with the source object
\* missing, null, without a name or with one
ShapeRecords ==
    {Restrict([FullRecord EXCEPT !.source = src], K) :
        src \in {EmptyDict, FullRecord.source},
        K \in SUBSET DOMAIN FullRecord}
        \cup {[FullRecord EXCEPT !.source = None]}

\* n records with n titles, their publishedAt in no order
LongRecords(n) ==
    ListOf([i \in 1..n |->
        [FullRecord EXCEPT !.title = Str(<<i>>),
                           !.publishedAt = Str(isoformat(Datetime(300 + ((i * 3) % 7))))]])

ArticleLists ==
    ListsUpTo(CoreRecords, MaxLen)
        \cup {<<r>> : r \in ShapeRecords}
        \cup {<<FullRecord, [FullRecord EXCEPT !.source = None]>>}
        \cup {LongRecords(n) : n \in LongLengths}
        \cup {Append(LongRecords(n), [FullRecord EXCEPT !.publishedAt = None]) :
                n \in LongLengths}

StatusOk == Str(<<1>>)
StatusError == Str(<<0>>)

NoResponse == [exc |-> "notcalled", data |-> None]

\* requests.get raises; r.json() raises; or data is the parsed body: the error
\* object of a rejected request (no "articles"), or an article list
Responses ==
    {[exc |-> e, data |-> None] : e \in {"ConnectionError", "Timeout", "JSONDecodeError"}}
        \cup {[exc |-> "none", data |-> d] :
                d \in {Dict([status |-> StatusError, code |-> Str(<<4, 0, 1>>)])}}
        \cup {[exc |-> "none", data |-> Dict([status |-> StatusOk, articles |-> List(l)])] :
                l \in ArticleLists}

FullEntry(t) ==
    [title |-> Str(<<1>>), link |-> Str(<<3>>), summary |-> Str(<<4>>),
     source |-> Dict([href |-> Str(<<6>>), title |-> Str(<<2>>)]),
     published_parsed |-> StructTime(t)]

\* publish times around from_date: earlier, equal, later
EntryTimes(from_date) == {from_date.ord - 1, from_date.ord, from_date.ord + 5}

CoreEntries(from_date) ==
    {Restrict(FullEntry(0), DOMAIN FullEntry(0) \ {"published_parsed"}),
     [FullEntry(0) EXCEPT !.published_parsed = None]}
        \cup {FullEntry(t) : t \in EntryTimes(from_date)}

ShapeEntries(from_date) ==
    {Restrict([FullEntry(from_date.ord) EXCEPT !.source = src], K) :
        src \in {Str(<<5>>), EmptyDict, FullEntry(0).source},
        K \in SUBSET DOMAIN FullEntry(0)}

\* n entries with n titles, none earlier than from_date
LongEntries(from_date, n) ==
    ListOf([i \in 1..n |->
        [FullEntry(from_date.ord + ((i * 3) % 4)) EXCEPT !.title = Str(<<i>>)]])

\* a feed with an entry of 2 days ago, one of 10 days ago, and one without a time
DatedEntries ==
    <<FullEntry(UtcNow - 2),
      [FullEntry(UtcNow - 10) EXCEPT !.title = Str(<<2>>)],
      Restrict([FullEntry(0) EXCEPT !.title = Str(<<3>>)],
               DOMAIN FullEntry(0) \ {"published_parsed"})>>

EntryLists(from_date) ==
    ListsUpTo(CoreEntries(from_date), MaxLen)
        \cup {DatedEntries}
        \cup {<<e>> : e \in ShapeEntries(from_date)}
        \cup {LongEntries(from_date, n) : n \in LongLengths}

NoFeed == [exc |-> "notcalled", entries |-> <<>>]

\* feedparser.parse raises, or gives the entries of the feed
Feeds(from_date) ==
    {[exc |-> "FeedError", entries |-> <<>>]}
        \cup {[exc |-> "none", entries |-> l] : l \in EntryLists(from_date)}

-----------------------------------------------------------------------------
(* The script: settings, then the loop over the four tabs *)

DEFAULT_QUERY == <<1>>
Space == 0

RECURSIVE lstrip(_)
lstrip(q) == IF q # <<>> /\ Head(q) = Space THEN lstrip(Tail(q)) ELSE q

RECURSIVE rstrip(_)
rstrip(q) ==
    IF q # <<>> /\ q[Len(q)] = Space THEN rstrip(SubSeq(q, 1, Len(q) - 1)) ELSE q

strip(q) == rstrip(lstrip(q))

\* the query the sidebar text gives
FullQuery(query) ==
    IF strip(query) # <<>>
    THEN DEFAULT_QUERY \o <<2>> \o strip(query) \o <<3>>
    ELSE DEFAULT_QUERY

SidebarTexts == {<<>>, <<Space>>, <<Space, 7, Space>>}

tabs == <<7, 30, 90, 180>>

NoTrace ==
    [called |-> FALSE, days |-> 0, query |-> <<>>, resp |-> NoResponse, feed |-> NoFeed,
     from_date |-> Datetime(0), calls |-> <<>>, primary |-> NotCalled,
     fallback |-> NotCalled, fetched |-> NotCalled, exc |-> "none", val |-> <<>>]

TraceOf(days, query, resp, feed, g) ==
    [called |-> TRUE, days |-> days, query |-> query, resp |-> resp, feed |-> feed,
     from_date |-> g.from_date, calls |-> g.calls, primary |-> g.primary,
     fallback |-> g.fallback, fetched |-> g.fetched, exc |-> g.exc, val |-> g.val]

Init ==
    /\ NEWSAPI_KEY \in {None, EmptyStr, Str(<<8>>)}
    /\ full_query \in {FullQuery(q) : q \in SidebarTexts}
    /\ tab = 1
    /\ pc = "fetch"
    /\ news = <<>>
    /\ screen = <<>>
    /\ trace = NoTrace

\* news = get_news(days, full_query) of the tab being rendered.  The primary
\* answers only when it is asked, the feed only when the fallback is tried.  An
\* exception of get_news is caught nowhere: it ends the script run.
GetNews ==
    /\ pc = "fetch"
    /\ LET days == tabs[tab]
           from_date == Datetime(UtcNow - days)
       IN  \E resp \in IF Truthy(NEWSAPI_KEY) THEN Responses ELSE {NoResponse} :
           \E feed \in IF Truthy(NEWSAPI_KEY)
                          /\ fetch_news_newsapi(full_query, from_date, resp).exc = "none"
                       THEN {NoFeed}
                       ELSE Feeds(from_date) :
               /\ trace' = TraceOf(days, full_query, resp, feed,
                                   get_news(days, full_query, UtcNow, resp, feed))
               /\ news' = trace'.val
               /\ pc' = IF trace'.exc = "none" THEN "render" ELSE "crashed"
               /\ screen' = IF trace'.exc = "none" THEN screen ELSE Append(screen, "exception")
    /\ UNCHANGED <<NEWSAPI_KEY, full_query, tab>>

\* the rest of the loop body: the empty-state message or the articles; then the
\* next tab.  The articles and the finished call are not read again.
Render ==
    /\ pc = "render"
    /\ screen' = Append(screen, IF news = <<>> THEN "info" ELSE "articles")
    /\ tab' = tab + 1
    /\ pc' = IF tab = Len(tabs) THEN "done" ELSE "fetch"
    /\ news' = <<>>
    /\ trace' = NoTrace
    /\ UNCHANGED <<NEWSAPI_KEY, full_query>>

Next == GetNews \/ Render

Spec == Init /\ [][Next]_vars

-----------------------------------------------------------------------------
(* Properties of get_news and of the tab loop *)

Min(a, b) == IF a < b THEN a ELSE b
Range(f) == {f[i] : i \in DOMAIN f}
Count(f, x) == Cardinality({i \in DOMAIN f : f[i] = x})

\* get_news was called for the tab and returned / raised
Returned == trace.called /\ trace.exc = "none"
Failed(outcome) == outcome.exc \notin {"none", "notcalled"}

\* a >= b on publishedAt values, an absent one being the minimum
StampGE(a, b) ==
    \/ b.type = "NoneType"
    \/ a.type = "str" /\ b.type = "str" /\ ~StrLT(a.s, b.s)

Descending(arts) ==
    \A i \in 1..(Len(arts) - 1) : StampGE(arts[i].publishedAt, arts[i + 1].publishedAt)

\* C1: whatever list the chosen fetcher produced, also one with articles
\* without a timestamp, get_news returns, and what it returns is in descending
\* order of publishedAt with the articles without a timestamp last.
C1_SortedAbsentLast ==
    (trace.called /\ trace.fetched.exc = "none")
        => (trace.exc = "none" /\ Descending(news))

\* C2: a sequence that get_news returns has at most 50 articles.
C2_AtMostFifty == Returned => Len(news) <= 50

C2_Truncated == Returned /\ Len(trace.fetched.val) > 50 /\ Len(news) = 50

\* C3: with a credential, when fetch_news_newsapi raises, get_news does not
\* raise that error, calls fetch_news_rss with the same query and from_date, and
\* returns what the fallback produced, sorted and cut to 50.
C3_PrimaryErrorFallsBack ==
    (trace.called /\ Truthy(NEWSAPI_KEY) /\ Failed(trace.primary))
        => /\ trace.calls = <<Call("fetch_news_newsapi", full_query, trace.from_date),
                              Call("fetch_news_rss", full_query, trace.from_date)>>
           /\ trace.exc # trace.primary.exc
           /\ trace.fallback.exc = "none"
                => /\ trace.exc = "none"
                   /\ Len(news) = Min(Len(trace.fallback.val), 50)
                   /\ Descending(news)
                   /\ \A a \in Range(news) : Count(news, a) <= Count(trace.fallback.val, a)

\* C4: without a credential (unset or empty) get_news never calls
\* fetch_news_newsapi, calls fetch_news_rss, and the missing credential is not
\* the error of the call.
C4_NoCredentialOnlyFallback ==
    (trace.called /\ NEWSAPI_KEY \in {None, EmptyStr})
        => /\ \A i \in 1..Len(trace.calls) : trace.calls[i].fn # "fetch_news_newsapi"
           /\ trace.calls = <<Call("fetch_news_rss", full_query, trace.from_date)>>
           /\ trace.exc # "RuntimeError"

C4_EmptyCredentialServed ==
    Returned /\ NEWSAPI_KEY = EmptyStr /\ news # <<>> /\ trace.fetched = trace.fallback

\* the publish time of a feed entry, -1 when it has none
EntryTime(e) ==
    IF "published_parsed" \in DOMAIN e /\ e["published_parsed"].type = "struct_time"
    THEN e["published_parsed"].tm[1]
    ELSE -1

\* C5: fetch_news_rss returns one article for each entry whose publish time is
\* absent or not earlier than from_date (equal included), none for an earlier
\* one, in the order of the feed.
C5_RssFilter ==
    (trace.called /\ trace.fallback.exc = "none")
        => LET es == trace.feed.entries
               arts == trace.fallback.val
               In(i) == EntryTime(es[i]) = -1 \/ EntryTime(es[i]) >= trace.from_date.ord
               rank(i) == Cardinality({j \in 1..i : In(j)})
           IN  /\ Len(arts) = Cardinality({i \in 1..Len(es) : In(i)})
               /\ \A i \in 1..Len(es) :
                    In(i) => /\ arts[rank(i)].title = Get(es[i], "title", None)
                             /\ arts[rank(i)].publishedAt =
                                    IF EntryTime(es[i]) = -1
                                    THEN None
                                    ELSE Str(isoformat(Datetime(EntryTime(es[i]))))

C5_BoundaryKept ==
    /\ trace.called /\ trace.fallback.exc = "none"
    /\ \E i, j \in 1..Len(trace.feed.entries) :
          /\ EntryTime(trace.feed.entries[i]) = trace.from_date.ord
          /\ EntryTime(trace.feed.entries[j]) = trace.from_date.ord - 1
    /\ Len(trace.fallback.val) = 1

\* C6: when the chosen fetcher returns n articles that all have a timestamp,
\* get_news returns min(n, 50) of them, and no article left out is more recent
\* than one returned.
C6_FiftyMostRecent ==
    (/\ trace.called /\ trace.fetched.exc = "none"
     /\ \A a \in Range(trace.fetched.val) : a.publishedAt.type = "str")
        => /\ trace.exc = "none"
           /\ Len(news) = Min(Len(trace.fetched.val), 50)
           /\ \A a \in Range(news) : Count(news, a) <= Count(trace.fetched.val, a)
           /\ \A a \in Range(trace.fetched.val) :
                Count(news, a) < Count(trace.fetched.val, a)
                    => \A b \in Range(news) : ~StrLT(b.publishedAt.s, a.publishedAt.s)

C6_OlderLeftOut ==
    /\ Returned /\ Len(trace.fetched.val) > 50 /\ Len(news) = 50
    /\ \A a \in Range(trace.fetched.val) : a.publishedAt.type = "str"
    /\ \E a \in Range(trace.fetched.val) :
          /\ a \notin Range(news)
          /\ \E b \in Range(news) : StrLT(a.publishedAt.s, b.publishedAt.s)

\* the request of the primary ended in a network failure, a parse failure, or an
\* answer that rejects the credential: an error object without an article list
PrimaryFailure(resp) ==
    \/ resp.exc \in {"ConnectionError", "Timeout", "JSONDecodeError"}
    \/ resp.exc = "none" /\ "articles" \notin DOMAIN resp.data.d

\* C7: every failure of the primary request (network, authentication, parse)
\* makes get_news call fetch_news_rss and return the fallback's articles.
C7_EveryPrimaryFailureFallsBack ==
    (trace.called /\ Truthy(NEWSAPI_KEY) /\ PrimaryFailure(trace.resp))
        => /\ \E i \in 1..Len(trace.calls) : trace.calls[i].fn = "fetch_news_rss"
           /\ trace.fetched = trace.fallback

\* C8: one call of get_news calls each fetcher at most once, fetch_news_rss
\* only after the primary failed or was skipped and as the last call, and an
\* error of fetch_news_rss is the error of get_news.
C8_NoRetries ==
    trace.called
        => /\ Count(trace.calls, Call("fetch_news_newsapi", full_query, trace.from_date)) <= 1
           /\ Count(trace.calls, Call("fetch_news_rss", full_query, trace.from_date)) <= 1
           /\ Len(trace.calls) <= 2
           /\ \A i \in 1..Len(trace.calls) :
                trace.calls[i].fn = "fetch_news_rss"
                    => trace.primary.exc # "none" /\ i = Len(trace.calls)
           /\ Failed(trace.fallback)
                => /\ trace.exc = trace.fallback.exc
                   /\ pc = "crashed"
                   /\ trace.calls[Len(trace.calls)].fn = "fetch_news_rss"

C8_FallbackFailedOnce ==
    /\ trace.called /\ Truthy(NEWSAPI_KEY)
    /\ Failed(trace.primary) /\ Failed(trace.fallback)
    /\ Len(trace.calls) = 2 /\ pc = "crashed"

\* C9: a failure of the fallback during one tab's retrieval does not end the
\* loop: no exception reaches the page and the script goes on to the other tabs.
C9_TabFailureContained ==
    (trace.called /\ Failed(trace.fallback))
        => pc # "crashed" /\ \A i \in 1..Len(screen) : screen[i] # "exception"

\* C10: a record with fields missing, or with the source object missing, null
\* or without a name, is normalized to an article with None for what is
\* missing; neither fetcher raises on it.
C10_MissingFieldsNeverRaise ==
    /\ (trace.called /\ trace.resp.exc = "none" /\ "articles" \in DOMAIN trace.resp.data.d)
          => LET rs == trace.resp.data.d["articles"].l
             IN  /\ trace.primary.exc = "none"
                 /\ Len(trace.primary.val) = Len(rs)
                 /\ \A i \in 1..Len(rs) :
                      /\ trace.primary.val[i].title = Get(rs[i], "title", None)
                      /\ \/ "source" \in DOMAIN rs[i] /\ rs[i]["source"].type = "dict"
                            /\ "name" \in DOMAIN rs[i]["source"].d
                         \/ trace.primary.val[i].source = None
    /\ (trace.called /\ trace.feed.exc = "none") => trace.fallback.exc = "none"

====
